---- MODULE Spec2Model ----
(***************************************************************************)
(* Model of combine_tree_data.py: combine_csv_files() and the __main__     *)
(* wrapper.  One run reads the sorted list of matching CSV files, turns    *)
(* every row with usable coordinates into a point feature, accumulates the *)
(* summary, writes the JSON document and its gzip copy, prints a summary   *)
(* and exits.                                                              *)
(*                                                                         *)
(* Text is modelled by string atoms.  A CSV line is the sequence of its    *)
(* fields.  Python's None is the atom NoneVal.  Floats are integers in     *)
(* tenths of a degree, with a flag for NaN.                                *)
(***************************************************************************)
EXTENDS Integers, Sequences, FiniteSets, TLC

\* ------------------------------------------------------------------ bounds
MaxFiles == 2
MaxLines == 2

\* ------------------------------------------------------- Python primitives
NoneVal  == "<None>"
NoneYear == -1
PosInf   == 100000
NegInf   == -100000
MinYear  == 1850
MaxYear  == 2025

Min2(a, b) == IF a <= b THEN a ELSE b
Max2(a, b) == IF a >= b THEN a ELSE b

\* str.strip() on the strings of the model
Strip(s) ==
  CASE s = "   "     -> ""
    [] s = " Rue A " -> "Rue A"
    [] s = " parc "  -> "parc"
    [] OTHER         -> s

\* float(x): the numeric literals of the model; everything else raises
NumericStrings == {"-73.6", "45.5", "0", "0.0", "nan"}

float(s) ==
  IF s = NoneVal THEN [exc |-> "TypeError", nan |-> FALSE, v |-> 0]
  ELSE IF s \notin NumericStrings THEN [exc |-> "ValueError", nan |-> FALSE, v |-> 0]
  ELSE CASE s = "-73.6" -> [exc |-> "", nan |-> FALSE, v |-> -736]
         [] s = "45.5"  -> [exc |-> "", nan |-> FALSE, v |-> 455]
         [] s = "0"     -> [exc |-> "", nan |-> FALSE, v |-> 0]
         [] s = "0.0"   -> [exc |-> "", nan |-> FALSE, v |-> 0]
         [] s = "nan"   -> [exc |-> "", nan |-> TRUE,  v |-> 0]

\* x == 0 on a float: NaN compares unequal to everything
IsZero(x) == ~x.nan /\ x.v = 0

\* date_string.replace('T00:00:00', '')
ReplaceMidnight(s) ==
  CASE s = "2010-05-01T00:00:00" -> "2010-05-01"
    [] s = "2025-12-31T00:00:00" -> "2025-12-31"
    [] s = "2026-01-01T00:00:00" -> "2026-01-01"
    [] s = "1700-01-01T00:00:00" -> "1700-01-01"
    [] OTHER                     -> s

\* the strings of the model that have the shape YYYY-MM-DD
IsoShaped ==
  [s \in {"2010-05-01", "2025-12-31", "2026-01-01", "1700-01-01",
          "1850-01-01", "1849-12-31", "2010-13-01", "2011-02-29"} |->
     CASE s = "2010-05-01" -> [y |-> 2010, m |-> 5,  d |-> 1]
       [] s = "2025-12-31" -> [y |-> 2025, m |-> 12, d |-> 31]
       [] s = "2026-01-01" -> [y |-> 2026, m |-> 1,  d |-> 1]
       [] s = "1700-01-01" -> [y |-> 1700, m |-> 1,  d |-> 1]
       [] s = "1850-01-01" -> [y |-> 1850, m |-> 1,  d |-> 1]
       [] s = "1849-12-31" -> [y |-> 1849, m |-> 12, d |-> 31]
       [] s = "2010-13-01" -> [y |-> 2010, m |-> 13, d |-> 1]
       [] s = "2011-02-29" -> [y |-> 2011, m |-> 2,  d |-> 29]]

IsLeap(y) == (y % 4 = 0 /\ y % 100 # 0) \/ y % 400 = 0

DaysInMonth(y, m) ==
  IF m = 2 THEN (IF IsLeap(y) THEN 29 ELSE 28)
  ELSE IF m \in {4, 6, 9, 11} THEN 30 ELSE 31

\* datetime.fromisoformat(s).year, or NoneYear with exc set when it raises
fromisoformat(s) ==
  IF s \notin DOMAIN IsoShaped THEN [exc |-> TRUE, year |-> NoneYear]
  ELSE LET p == IsoShaped[s] IN
       IF p.y \in 1..9999 /\ p.m \in 1..12 /\ p.d \in 1..DaysInMonth(p.y, p.m)
       THEN [exc |-> FALSE, year |-> p.y]
       ELSE [exc |-> TRUE, year |-> NoneYear]

\* truth value of parse_date's result: None and 0 are false
Truthy(year) == year # NoneYear /\ year # 0

\* parse_date with the lower bound taken exclusive
parse_date_exclusive(date_string) ==
  IF date_string = NoneVal \/ date_string = "" \/ Strip(date_string) = ""
  THEN NoneYear
  ELSE LET date_obj == fromisoformat(ReplaceMidnight(date_string)) IN
       IF date_obj.exc THEN NoneYear
       ELSE IF MinYear < date_obj.year /\ date_obj.year <= MaxYear
            THEN date_obj.year ELSE NoneYear

parse_date(date_string) ==
  IF date_string = NoneVal \/ date_string = "" \/ Strip(date_string) = ""
  THEN NoneYear
  ELSE LET date_obj == fromisoformat(ReplaceMidnight(date_string)) IN
       IF date_obj.exc THEN NoneYear
       ELSE IF MinYear <= date_obj.year /\ date_obj.year <= MaxYear
            THEN date_obj.year ELSE NoneYear

\* ------------------------------------------------------------- CSV schema
CSV_COLUMNS ==
  << "Type_Propriete", "No_Civique", "Arrond", "Arrond_Nom",
     "Col4", "Col5", "Col6", "Emplacement", "Essence_code",
     "Essence_latin", "Essence_fr", "Essence_en", "DHP",
     "Date_Plantation", "Date_Releve", "Col15", "Col16",
     "Rue", "Rue_Nom", "Col19", "Col20", "Col21", "Col22",
     "Col23", "Col24", "Col25", "Col26", "Secteur",
     "X_Coord", "Y_Coord", "Longitude", "Latitude" >>

\* the strings of the model that contain one of the marker tokens
\* 'Arrond', 'Longitude', 'Latitude', 'Essence' as a substring
MarkerBearing ==
  {"Arrond", "Arrond_Nom", "Longitude", "Latitude",
   "Essence_code", "Essence_latin", "Essence_fr", "Essence_en"}

\* any(name in first_line for name in [...]) on the text of a line
HasMarker(line) == \E k \in DOMAIN line : line[k] \in MarkerBearing

\* a header line other than CSV_COLUMNS: fewer columns, another order
ShortHeader == << "Longitude", "Latitude", "Date_Plantation", "Essence_en", "Rue_Nom" >>

\* a data line laid out as CSV_COLUMNS
Line32(empl, en, date, rue, lon, lat) ==
  [k \in 1..32 |->
     CASE k = 1  -> "H"
       [] k = 3  -> "VM"
       [] k = 8  -> empl
       [] k = 10 -> "Acer"
       [] k = 11 -> "Erable"
       [] k = 12 -> en
       [] k = 13 -> "12"
       [] k = 14 -> date
       [] k = 19 -> rue
       [] k = 31 -> lon
       [] k = 32 -> lat
       [] OTHER  -> "x"]

\* the lines a file of the model may hold
DataLines ==
  { Line32("parc", "Maple", "2010-05-01T00:00:00", "Rue A", "-73.6", "45.5"),
    Line32(" parc ", "Oak", "1850-01-01", " Rue A ", "-73.6", "45.5"),
    Line32("parc", "ash", "2025-12-31T00:00:00", "Rue A", "-73.6", "45.5"),
    Line32("parc", "", "1849-12-31", "Rue A", "-73.6", "45.5"),
    Line32("parc", "Maple", "2026-01-01T00:00:00", "Rue A", "-73.6", "45.5"),
    Line32("parc", "ash", "", "Rue A", "-73.6", "45.5"),
    Line32("parc", "Oak", "n/a", "Rue A", "-73.6", "45.5"),
    Line32("parc", "Maple", "2011-02-29", "Rue A", "nan", "45.5"),
    Line32("parc", "Elm", "2010-05-01T00:00:00", "Rue A", "0", "45.5"),
    Line32("parc", "Elm", "1850-01-01", "Rue A", "-73.6", "0.0"),
    Line32("parc", "Elm", "", "Rue A", "abc", "45.5"),
    << "H", "1", "VM" >>,
    << "-73.6", "45.5", "   ", "Oak", " Rue A " >>,
    << "-73.6", "45.5", "1700-01-01T00:00:00" >> }

Lines == DataLines \cup {CSV_COLUMNS, ShortHeader}

\* the first line of an empty file (readline() returns '')
EmptyLine == << >>

\* reader.fieldnames not yet set / first_file_headers = None
NoneHdr == << >>

\* the row dict csv.DictReader builds from a line: zip(fieldnames, line),
\* the fieldnames beyond the line mapped to restval None, a later duplicate
\* name overriding an earlier one (the restkey entry is never read)
DictRow(fieldnames, line) ==
  [name \in {fieldnames[k] : k \in DOMAIN fieldnames} |->
     LET last == CHOOSE k \in DOMAIN fieldnames :
                   /\ fieldnames[k] = name
                   /\ \A j \in DOMAIN fieldnames : fieldnames[j] = name => j <= k
     IN IF last <= Len(line) THEN line[last] ELSE NoneVal]

\* row.get(key, default)
get(row, key, default) == IF key \in DOMAIN row THEN row[key] ELSE default

\* x or default: None and '' are false
OrElse(x, default) == IF x = NoneVal \/ x = "" THEN default ELSE x

\* ------------------------------------------------------- row -> feature
\* the coordinate check that skips only when both coordinates are zero
CoordCheck_both(row) ==
  LET lon == float(get(row, "Longitude", "0"))
      lat == float(get(row, "Latitude", "0"))
  IN IF lon.exc # "" \/ lat.exc # "" THEN [skip |-> TRUE, lon |-> lon, lat |-> lat]
     ELSE [skip |-> IsZero(lon) /\ IsZero(lat), lon |-> lon, lat |-> lat]

\* lines 103-117: parse both coordinates; skip on ValueError/TypeError or zero
\* (the default 0 of row.get is written "0": float(0) = float("0"))
CoordCheck(row) ==
  LET lon == float(get(row, "Longitude", "0"))
      lat == float(get(row, "Latitude", "0"))
  IN IF lon.exc # "" \/ lat.exc # "" THEN [skip |-> TRUE, lon |-> lon, lat |-> lat]
     ELSE [skip |-> IsZero(lon) \/ IsZero(lat), lon |-> lon, lat |-> lat]

\* the year property written as parsed, None included
YearProperty_raw(year) == year

\* line 147: "y": year if year else 0
YearProperty(year) == IF Truthy(year) THEN year ELSE 0

\* lines 127-149: the feature appended for a row (src: the file it came from)
Feature(row, lon, lat, year, src) ==
  [ coordinates |-> << lon, lat >>,
    a  |-> OrElse(get(row, "Arrond", ""), ""),
    r  |-> Strip(OrElse(get(row, "Rue_Nom", ""), "")),
    e  |-> Strip(OrElse(get(row, "Emplacement", ""), "")),
    tl |-> OrElse(get(row, "Essence_latin", "Unknown"), "Unknown"),
    tf |-> OrElse(get(row, "Essence_fr", "Inconnu"), "Inconnu"),
    te |-> OrElse(get(row, "Essence_en", "Unknown"), "Unknown"),
    d  |-> OrElse(get(row, "DHP", ""), ""),
    y  |-> YearProperty(year),
    src |-> src ]

\* the skip branch without the increment of total_skipped
SkipRow_forgetful(acc) ==
  [acc EXCEPT !.file_rows = @ + 1, !.total_rows = @ + 1,
              !.file_skipped = @ + 1]

\* lines 99-100 and 110-112 / 115-117: a row that is skipped
SkipRow(acc) ==
  [acc EXCEPT !.file_rows = @ + 1, !.total_rows = @ + 1,
              !.file_skipped = @ + 1, !.total_skipped = @ + 1]

\* the emit branch without the increment of total_valid
EmitRow_forgetful(acc, row, lon, lat, src) ==
  LET year == parse_date(get(row, "Date_Plantation", ""))
      feat == Feature(row, lon, lat, year, src)
  IN [acc EXCEPT
        !.file_rows = @ + 1, !.total_rows = @ + 1,
        !.trees_with_dates = IF Truthy(year) THEN @ + 1 ELSE @,
        !.year_range = IF Truthy(year)
                       THEN [min |-> Min2(@.min, year), max |-> Max2(@.max, year)]
                       ELSE @,
        !.tree_types = @ \cup {feat.te},
        !.features = Append(@, feat),
        !.file_valid = @ + 1]

\* lines 99-100 and 119-152: a row that becomes a feature
EmitRow(acc, row, lon, lat, src) ==
  LET year == parse_date(get(row, "Date_Plantation", ""))
      feat == Feature(row, lon, lat, year, src)
  IN [acc EXCEPT
        !.file_rows = @ + 1, !.total_rows = @ + 1,
        !.trees_with_dates = IF Truthy(year) THEN @ + 1 ELSE @,
        !.year_range = IF Truthy(year)
                       THEN [min |-> Min2(@.min, year), max |-> Max2(@.max, year)]
                       ELSE @,
        !.tree_types = @ \cup {feat.te},
        !.features = Append(@, feat),
        !.file_valid = @ + 1, !.total_valid = @ + 1]

\* lines 98-152: the body of the row loop for one row
ProcessRow(acc, row, src) ==
  LET c == CoordCheck(row)
  IN IF c.skip THEN SkipRow(acc) ELSE EmitRow(acc, row, c.lon, c.lat, src)

\* ------------------------------------------------------------ aggregation
\* the code points of the species names of the model
CodePoints(s) ==
  CASE s = "Maple"   -> << 77, 97, 112, 108, 101 >>
    [] s = "Oak"     -> << 79, 97, 107 >>
    [] s = "Elm"     -> << 69, 108, 109 >>
    [] s = "Unknown" -> << 85, 110, 107, 110, 111, 119, 110 >>
    [] s = "ash"     -> << 97, 115, 104 >>

\* a < b on Python strings: lexicographic on code points
RECURSIVE SeqLess(_, _)
SeqLess(a, b) ==
  IF b = << >> THEN FALSE
  ELSE IF a = << >> THEN TRUE
  ELSE IF Head(a) # Head(b) THEN Head(a) < Head(b)
  ELSE SeqLess(Tail(a), Tail(b))

StrLess(a, b) == SeqLess(CodePoints(a), CodePoints(b))

\* the list in descending order
RECURSIVE sorted_desc(_)
sorted_desc(S) ==
  IF S = {} THEN << >>
  ELSE LET m == CHOOSE x \in S : \A z \in S : z = x \/ StrLess(z, x)
       IN << m >> \o sorted_desc(S \ {m})

\* sorted(list(tree_types))
RECURSIVE sorted(_)
sorted(S) ==
  IF S = {} THEN << >>
  ELSE LET m == CHOOSE x \in S : \A z \in S : z = x \/ StrLess(x, z)
       IN << m >> \o sorted(S \ {m})

\* lines 161-170: the metadata record (generated_at, a clock reading, left out)
Metadata(feats, with_dates, yr, types) ==
  [ total_trees      |-> Len(feats),
    trees_with_dates |-> with_dates,
    year_range       |-> [min |-> IF yr.min # PosInf THEN yr.min ELSE NoneYear,
                          max |-> IF yr.max # NegInf THEN yr.max ELSE NoneYear],
    tree_types       |-> sorted(types) ]

\* ------------------------------------------------------------------ state
VARIABLES
  pc,                 \* position of the run
  csv_files,          \* sorted(glob.glob(pattern)), the files numbered in sorted order
  i,                  \* index of the file being processed (from 1)
  features,           \* geojson["features"]
  tree_types, year_range,
  total_rows, total_valid, total_skipped, trees_with_dates,
  first_file_headers,
  file_rows, file_valid, file_skipped,
  first_line,         \* first line of the open file
  fieldnames,         \* reader.fieldnames, NoneHdr until read from the file
  f_pos,              \* "first": the first line is still to be read by the reader,
                      \* "rest": it has been read, "empty": the file has no line
  metadata,           \* geojson["metadata"], << >> until set
  json_file,          \* the document in output_file, << >> while absent
  gzip_file,          \* the document in output_file + '.gz', << >> while absent
  exit_status,        \* process exit status, -1 while running
  lines_read,         \* history: number of lines the files have shown so far
  failed,             \* history: the files whose processing raised
  last_row,           \* history: the last row processed of the open file
  hdr_consumed,       \* history: the reader took first_line as its header
  file1_header        \* history: the header line seen in the first file, or NoneHdr

vars == << pc, csv_files, i, features, tree_types, year_range,
           total_rows, total_valid, total_skipped, trees_with_dates,
           first_file_headers, file_rows, file_valid, file_skipped,
           first_line, fieldnames, f_pos, metadata, json_file, gzip_file,
           exit_status, lines_read, failed, last_row, hdr_consumed, file1_header >>

outputs == << metadata, json_file, gzip_file, exit_status >>
totals  == << features, tree_types, year_range, total_rows, total_valid,
              total_skipped, trees_with_dates >>
perfile == << file_rows, file_valid, file_skipped >>
readerv == << first_line, fieldnames, f_pos, hdr_consumed >>

\* the accumulators the row loop updates
Acc ==
  [ features |-> features, tree_types |-> tree_types, year_range |-> year_range,
    total_rows |-> total_rows, total_valid |-> total_valid,
    total_skipped |-> total_skipped, trees_with_dates |-> trees_with_dates,
    file_rows |-> file_rows, file_valid |-> file_valid,
    file_skipped |-> file_skipped ]

SetAcc(a) ==
  /\ features' = a.features
  /\ tree_types' = a.tree_types
  /\ year_range' = a.year_range
  /\ total_rows' = a.total_rows
  /\ total_valid' = a.total_valid
  /\ total_skipped' = a.total_skipped
  /\ trees_with_dates' = a.trees_with_dates
  /\ file_rows' = a.file_rows
  /\ file_valid' = a.file_valid
  /\ file_skipped' = a.file_skipped

\* line 42: any number of matching files up to the bound
Init ==
  /\ csv_files \in {[k \in 1..n |-> k] : n \in 0..MaxFiles}
  /\ pc = "start"
  /\ i = 0
  /\ features = << >>
  /\ tree_types = {}
  /\ year_range = [min |-> PosInf, max |-> NegInf]
  /\ total_rows = 0 /\ total_valid = 0 /\ total_skipped = 0
  /\ trees_with_dates = 0
  /\ first_file_headers = NoneHdr
  /\ file_rows = 0 /\ file_valid = 0 /\ file_skipped = 0
  /\ first_line = EmptyLine
  /\ fieldnames = NoneHdr
  /\ f_pos = "empty"
  /\ metadata = << >>
  /\ json_file = << >>
  /\ gzip_file = << >>
  /\ exit_status = -1
  /\ lines_read = 0
  /\ failed = {}
  /\ last_row = << >>
  /\ hdr_consumed = FALSE
  /\ file1_header = NoneHdr

\* the empty glob result falling through to the loop instead of exiting
NoFilesFound_fallthrough ==
  /\ pc = "start"
  /\ csv_files = << >>
  /\ pc' = "meta"
  /\ UNCHANGED << csv_files, i, totals, first_file_headers, perfile, readerv,
                  outputs, lines_read, failed, last_row, file1_header >>

\* lines 44-49 and 211-217: sys.exit(1) raises SystemExit, which the
\* "except Exception" of __main__ does not catch; the process exits 1
NoFilesFound ==
  /\ pc = "start"
  /\ csv_files = << >>
  /\ pc' = "exited"
  /\ exit_status' = 1
  /\ UNCHANGED << csv_files, i, totals, first_file_headers, perfile, readerv,
                  metadata, json_file, gzip_file, lines_read, failed, last_row,
                  file1_header >>

\* lines 51-66: the locals are set up and the loop starts with the first file
Begin ==
  /\ pc = "start"
  /\ csv_files # << >>
  /\ pc' = "open"
  /\ i' = 1
  /\ UNCHANGED << csv_files, totals, first_file_headers, perfile, readerv,
                  outputs, lines_read, failed, last_row, file1_header >>

\* the loop moves to the next file, or leaves for line 161 after the last
NextFile ==
  IF i < Len(csv_files)
  THEN i' = i + 1 /\ pc' = "open"
  ELSE i' = i /\ pc' = "meta"

\* leaving the with block of line 74: the file and its reader are gone
CloseFile ==
  /\ first_line' = EmptyLine
  /\ fieldnames' = NoneHdr
  /\ f_pos' = "empty"
  /\ hdr_consumed' = FALSE
  /\ last_row' = << >>

\* lines 69-76 raising (open() or the first readline() fails), caught at 156-158
OpenFails ==
  /\ pc = "open"
  /\ file_rows' = 0 /\ file_valid' = 0 /\ file_skipped' = 0
  /\ failed' = failed \cup {i}
  /\ NextFile
  /\ UNCHANGED << csv_files, totals, first_file_headers, readerv, outputs,
                  lines_read, last_row, file1_header >>

\* the position of a freshly opened file whose first line is line
StartPos(line) == IF line = EmptyLine THEN "empty" ELSE "first"

\* lines 69-89, i == 1: the header discipline is decided from the first file
OpenFirstFile ==
  /\ pc = "open"
  /\ i = 1
  /\ \E line \in Lines \cup {EmptyLine} :
       /\ line # EmptyLine => lines_read < MaxLines
       /\ lines_read' = IF line = EmptyLine THEN lines_read ELSE lines_read + 1
       /\ first_line' = line
       /\ IF HasMarker(line)
          THEN /\ fieldnames' = line          \* reader.fieldnames reads the header
               /\ first_file_headers' = line
               /\ f_pos' = "rest"
               /\ hdr_consumed' = TRUE
               /\ file1_header' = line
          ELSE /\ fieldnames' = CSV_COLUMNS
               /\ first_file_headers' = CSV_COLUMNS
               /\ f_pos' = StartPos(line)
               /\ hdr_consumed' = FALSE
               /\ file1_header' = NoneHdr
  /\ file_rows' = 0 /\ file_valid' = 0 /\ file_skipped' = 0
  /\ pc' = "rows"
  /\ UNCHANGED << csv_files, i, totals, outputs, failed, last_row >>

\* lines 69-78 and 90-96, i > 1
OpenLaterFile ==
  /\ pc = "open"
  /\ i > 1
  /\ \E line \in Lines \cup {EmptyLine} :
       /\ line # EmptyLine => lines_read < MaxLines
       /\ lines_read' = IF line = EmptyLine THEN lines_read ELSE lines_read + 1
       /\ first_line' = line
       /\ fieldnames' = IF ~HasMarker(line) THEN first_file_headers ELSE NoneHdr
       /\ f_pos' = StartPos(line)
  /\ hdr_consumed' = FALSE
  /\ file_rows' = 0 /\ file_valid' = 0 /\ file_skipped' = 0
  /\ pc' = "rows"
  /\ UNCHANGED << csv_files, i, totals, first_file_headers, outputs, failed,
                  last_row, file1_header >>

\* line 98 yielding first_line as the first row: the reader was given fieldnames
ReadFirstLineAsRow ==
  /\ pc = "rows"
  /\ f_pos = "first"
  /\ fieldnames # NoneHdr
  /\ LET row == DictRow(fieldnames, first_line)
     IN SetAcc(ProcessRow(Acc, row, i)) /\ last_row' = row
  /\ f_pos' = "rest"
  /\ UNCHANGED << pc, csv_files, i, first_file_headers, first_line, fieldnames,
                  hdr_consumed, outputs, lines_read, failed, file1_header >>

\* line 98 with no fieldnames given: DictReader takes first_line as the header
\* and yields the line after it
ReadHeaderThenRow ==
  /\ pc = "rows"
  /\ f_pos = "first"
  /\ fieldnames = NoneHdr
  /\ lines_read < MaxLines
  /\ \E line \in Lines :
       LET row == DictRow(first_line, line)
       IN SetAcc(ProcessRow(Acc, row, i)) /\ last_row' = row
  /\ fieldnames' = first_line
  /\ hdr_consumed' = TRUE
  /\ f_pos' = "rest"
  /\ lines_read' = lines_read + 1
  /\ UNCHANGED << pc, csv_files, i, first_file_headers, first_line, outputs,
                  failed, file1_header >>

\* line 98 yielding a line after the first
ReadRow ==
  /\ pc = "rows"
  /\ f_pos = "rest"
  /\ lines_read < MaxLines
  /\ \E line \in Lines :
       LET row == DictRow(fieldnames, line)
       IN SetAcc(ProcessRow(Acc, row, i)) /\ last_row' = row
  /\ lines_read' = lines_read + 1
  /\ UNCHANGED << pc, csv_files, i, first_file_headers, readerv, outputs,
                  failed, file1_header >>

\* line 98 at the end of the file, then line 154 and the next file.  A reader
\* without fieldnames reads the header on the way and finds nothing after it.
EndOfFile ==
  /\ pc = "rows"
  /\ \/ f_pos \in {"rest", "empty"}
     \/ f_pos = "first" /\ fieldnames = NoneHdr
  /\ CloseFile
  /\ NextFile
  /\ UNCHANGED << csv_files, totals, first_file_headers, perfile,
                  outputs, lines_read, failed, file1_header >>

\* line 98 raising while reading (UnicodeDecodeError, csv.Error), caught at
\* 156-158: what the rows before it added stays
ReadError ==
  /\ pc = "rows"
  /\ failed' = failed \cup {i}
  /\ CloseFile
  /\ NextFile
  /\ UNCHANGED << csv_files, totals, first_file_headers, perfile,
                  outputs, lines_read, file1_header >>

\* lines 161-170
AddMetadata ==
  /\ pc = "meta"
  /\ metadata' = Metadata(features, trees_with_dates, year_range, tree_types)
  /\ pc' = "write_json"
  /\ UNCHANGED << csv_files, i, totals, first_file_headers, perfile, readerv,
                  json_file, gzip_file, exit_status, lines_read, failed, last_row,
                  file1_header >>

\* lines 173-177
WriteJson ==
  /\ pc = "write_json"
  /\ json_file' = << [features |-> features, metadata |-> metadata] >>
  /\ pc' = "write_gzip"
  /\ UNCHANGED << csv_files, i, totals, first_file_headers, perfile, readerv,
                  metadata, gzip_file, exit_status, lines_read, failed, last_row,
                  file1_header >>

\* lines 180-185
WriteGzip ==
  /\ pc = "write_gzip"
  /\ gzip_file' = << [features |-> features, metadata |-> metadata] >>
  /\ pc' = "summary"
  /\ UNCHANGED << csv_files, i, totals, first_file_headers, perfile, readerv,
                  metadata, json_file, exit_status, lines_read, failed, last_row,
                  file1_header >>

\* lines 188-205 with rows read: the summary prints, the function returns and
\* the process exits 0
SummaryPrinted ==
  /\ pc = "summary"
  /\ total_rows # 0
  /\ pc' = "exited"
  /\ exit_status' = 0
  /\ UNCHANGED << csv_files, i, totals, first_file_headers, perfile, readerv,
                  metadata, json_file, gzip_file, lines_read, failed, last_row,
                  file1_header >>

\* line 196 with total_rows = 0: total_valid/total_rows raises
\* ZeroDivisionError, caught at 213-217, which exits 1
SummaryDividesByZero ==
  /\ pc = "summary"
  /\ total_rows = 0
  /\ pc' = "exited"
  /\ exit_status' = 1
  /\ UNCHANGED << csv_files, i, totals, first_file_headers, perfile, readerv,
                  metadata, json_file, gzip_file, lines_read, failed, last_row,
                  file1_header >>

Next ==
  \/ NoFilesFound
  \/ Begin
  \/ OpenFails
  \/ OpenFirstFile
  \/ OpenLaterFile
  \/ ReadFirstLineAsRow
  \/ ReadHeaderThenRow
  \/ ReadRow
  \/ EndOfFile
  \/ ReadError
  \/ AddMetadata
  \/ WriteJson
  \/ WriteGzip
  \/ SummaryPrinted
  \/ SummaryDividesByZero

Spec == Init /\ [][Next]_vars

\* ------------------------------------------------------------- properties
\* a step that processes one row
RowStep == total_rows' = total_rows + 1

\* a coordinate field that is missing (no such column, or None for a short
\* line), not a number for float(), or a spelling of zero
BadCoordinate(row, key) ==
  \/ key \notin DOMAIN row
  \/ row[key] = NoneVal
  \/ row[key] \notin NumericStrings
  \/ row[key] \in {"0", "0.0"}

BadCoords(row) == BadCoordinate(row, "Longitude") \/ BadCoordinate(row, "Latitude")

\* the plantation date field as the row holds it
DateField(row) == get(row, "Date_Plantation", "")

\* a non-empty date that fromisoformat accepts, with its year within the bounds
DatedInRange(row) ==
  /\ DateField(row) \notin {NoneVal, "", "   "}
  /\ ~fromisoformat(ReplaceMidnight(DateField(row))).exc
  /\ IsoShaped[ReplaceMidnight(DateField(row))].y \in MinYear..MaxYear

LastFeature(feats) == feats[Len(feats)]

\* C1: with no matching file the first step ends the process with a non-zero
\* exit status, and neither the JSON file nor its .gz copy is ever written.
C1_NoFilesExitsNonZero ==
  csv_files = << >> =>
    /\ json_file = << >> /\ gzip_file = << >> /\ metadata = << >>
    /\ pc # "start" => (pc = "exited" /\ exit_status > 0)

C1_Witness == csv_files = << >> /\ pc = "exited" /\ exit_status = 1

\* C2: no feature of the document comes from a file whose processing raised.
C2_FailedFileContributesNothing ==
  \A k \in 1..Len(features) : features[k].src \notin failed

\* C3: with at least one matching file, the process ends with the output
\* document written and exit status zero, whatever the files held.
C3_RunEndsWithOutputAndZero ==
  (pc = "exited" /\ csv_files # << >>) =>
    (exit_status = 0 /\ json_file # << >> /\ gzip_file # << >>)

\* C4: a row whose longitude or latitude is missing, non-numeric or zero adds
\* exactly 1 to the skip counter and leaves the features, the valid counter,
\* the has-date counter, the year range and the species set as they were.
C4_BadCoordsOnlyCountSkip ==
  [][ (RowStep /\ BadCoords(last_row')) =>
        /\ total_skipped' = total_skipped + 1
        /\ file_skipped' = file_skipped + 1
        /\ features' = features
        /\ total_valid' = total_valid
        /\ trees_with_dates' = trees_with_dates
        /\ year_range' = year_range
        /\ tree_types' = tree_types ]_vars

C4_Witness ==
  /\ last_row # << >>
  /\ "Longitude" \in DOMAIN last_row /\ last_row["Longitude"] = "0"
  /\ ~BadCoordinate(last_row, "Latitude")
  /\ total_skipped = 1 /\ total_valid = 1

\* C5: a row that is emitted and whose plantation date is non-empty, well
\* formed and of a year in [1850, 2025] gives a feature whose 'y' is that
\* year, and adds one to the has-date counter.
C5_DatedRowKeepsYear ==
  [][ (RowStep /\ ~BadCoords(last_row') /\ DatedInRange(last_row')) =>
        /\ Len(features') = Len(features) + 1
        /\ LastFeature(features').y = IsoShaped[ReplaceMidnight(DateField(last_row'))].y
        /\ trees_with_dates' = trees_with_dates + 1 ]_vars

C5_Witness ==
  /\ Len(features) = 2
  /\ features[1].y = MinYear /\ features[2].y = MaxYear
  /\ trees_with_dates = 2

\* C6: a row with valid coordinates and an empty, malformed or out-of-range
\* plantation date still gives a feature, with 'y' = 0, and changes neither the
\* has-date counter nor the year range; so the trees_with_dates of the
\* metadata is the number of features whose 'y' is not 0.
C6_UndatedRowGetsZero ==
  /\ [](metadata # << >> =>
          metadata.trees_with_dates =
            Cardinality({k \in 1..Len(features) : features[k].y # 0}))
  /\ [][ (RowStep /\ ~BadCoords(last_row') /\ ~DatedInRange(last_row')) =>
           /\ Len(features') = Len(features) + 1
           /\ LastFeature(features').y = 0
           /\ trees_with_dates' = trees_with_dates
           /\ year_range' = year_range ]_vars

C6_Witness ==
  /\ pc = "exited"
  /\ Len(features) = 2
  /\ features[1].y = 0 /\ features[2].y = 2010
  /\ metadata.trees_with_dates = 1

\* the English species value of a row, "Unknown" for an empty or missing one
SpeciesOf(row) ==
  IF "Essence_en" \notin DOMAIN row \/ row["Essence_en"] \in {NoneVal, ""}
  THEN "Unknown" ELSE row["Essence_en"]

\* C7: the tree_types of the metadata is strictly ascending (sorted, no
\* duplicate) and holds exactly the 'te' values of the emitted features, each
\* 'te' being the row's English species or "Unknown".
C7_TreeTypesSortedDistinctExact ==
  /\ [](metadata # << >> =>
          /\ \A j, k \in 1..Len(metadata.tree_types) :
               j < k => StrLess(metadata.tree_types[j], metadata.tree_types[k])
          /\ {metadata.tree_types[k] : k \in 1..Len(metadata.tree_types)}
               = {features[k].te : k \in 1..Len(features)})
  /\ [][ (RowStep /\ Len(features') > Len(features)) =>
           LastFeature(features').te = SpeciesOf(last_row') ]_vars

C7_Witness ==
  /\ metadata # << >>
  /\ Len(metadata.tree_types) = 2
  /\ metadata.tree_types[1] = "Unknown"
  /\ metadata.tree_types[2] = "ash"

\* C8: the total_trees of the written document is the length of its feature
\* sequence, and the feature sequence is always as long as total_valid.
C8_TotalTreesIsFeatureCount ==
  /\ Len(features) = total_valid
  /\ metadata # << >> => metadata.total_trees = Len(features)
  /\ json_file # << >> =>
       /\ json_file[1].metadata.total_trees = Len(json_file[1].features)
       /\ json_file[1].features = features
  /\ gzip_file # << >> => gzip_file = json_file

C8_Witness ==
  /\ json_file # << >>
  /\ json_file[1].metadata.total_trees = 2
  /\ failed # {}

\* the first file's header if one was read, else the fixed column list
CanonicalSchema == IF file1_header # NoneHdr THEN file1_header ELSE CSV_COLUMNS

\* C9: a file whose first line carries no marker token is read with the
\* canonical schema, and its first line is never taken as a header.
C9_HeaderlessFileUsesCanonicalSchema ==
  (pc = "rows" /\ first_line # EmptyLine /\ ~HasMarker(first_line)) =>
    (fieldnames = CanonicalSchema /\ ~hdr_consumed)

\* C10: the valid and skipped counters add up to the row counter, in total and
\* per file, and each row adds one to exactly one of them.
C10_RowsAreValidOrSkipped ==
  /\ [](/\ total_rows = total_valid + total_skipped
        /\ file_rows = file_valid + file_skipped)
  /\ [][ RowStep =>
           /\ file_rows' = file_rows + 1
           /\ \/ /\ total_valid' = total_valid + 1 /\ total_skipped' = total_skipped
                 /\ file_valid' = file_valid + 1 /\ file_skipped' = file_skipped
              \/ /\ total_valid' = total_valid /\ total_skipped' = total_skipped + 1
                 /\ file_valid' = file_valid /\ file_skipped' = file_skipped + 1 ]_vars

C10_Witness ==
  /\ pc = "rows" /\ i = 2
  /\ total_rows = 2 /\ total_valid = 1 /\ total_skipped = 1
  /\ file_rows = 1

====
